---- MODULE Spec2Model ----
(***************************************************************************)
(* Loan-App: api/index.js, the loan management function.                   *)
(*                                                                         *)
(* The module models the process state of api/index.js (db,                *)
(* useFileStorage), the two stores (the borrowers collection of the        *)
(* database, the JSON document /tmp/data.json) and the four request        *)
(* handlers, cut at their awaits, so that requests overlap exactly where   *)
(* the event loop lets them.                                               *)
(*                                                                         *)
(* Numbers are JavaScript numbers.  A finite number is held exactly, as a  *)
(* multiple of 1/Scale (the code divides by 12 and by 100 only); the       *)
(* non-finite values Infinity, -Infinity and NaN and JSON's null are       *)
(* values of their own.  Floating-point rounding is not modelled.          *)
(***************************************************************************)
EXTENDS Integers, Sequences, FiniteSets, TLC

(***************************************************************************)
(* JavaScript numbers                                                      *)
(***************************************************************************)
Scale == 12 * 100

Fin(n) == [t |-> "num", v |-> n]
N(k) == Fin(k * Scale)
Zero == Fin(0)
Infinity == [t |-> "inf", v |-> 1]
NegInfinity == [t |-> "inf", v |-> -1]
NaN == [t |-> "nan", v |-> 0]
Null == [t |-> "null", v |-> 0]
Undefined == [t |-> "undefined", v |-> 0]
NotANumber == [t |-> "string", v |-> 0]

Sign(n) == IF n > 0 THEN 1 ELSE IF n < 0 THEN -1 ELSE 0

\* Number(x): undefined and a non-numeric string give NaN, null gives 0.
ToNumber(x) ==
  CASE x.t = "num" -> x
    [] x.t = "inf" -> x
    [] x.t = "null" -> Zero
    [] OTHER -> NaN

\* The truth value of x in a condition or under ||.
Truthy(x) ==
  CASE x.t = "num" -> x.v # 0
    [] x.t = "inf" -> TRUE
    [] x.t = "string" -> TRUE
    [] OTHER -> FALSE

\* x || 0
OrZero(x) == IF Truthy(x) THEN x ELSE Zero

\* Number(x) || 0
NumberOrZero(x) == OrZero(ToNumber(x))

\* a + b
Add(x, y) ==
  LET a == ToNumber(x)
      b == ToNumber(y)
  IN  CASE a.t = "nan" \/ b.t = "nan" -> NaN
        [] a.t = "inf" /\ b.t = "inf" -> IF a.v = b.v THEN a ELSE NaN
        [] a.t = "inf" -> a
        [] b.t = "inf" -> b
        [] OTHER -> Fin(a.v + b.v)

\* -a
Neg(x) ==
  LET a == ToNumber(x)
  IN  CASE a.t = "nan" -> NaN
        [] a.t = "inf" -> [t |-> "inf", v |-> 0 - a.v]
        [] OTHER -> Fin(0 - a.v)

\* a - b
Sub(x, y) == Add(x, Neg(y))

\* a * b
Mul(x, y) ==
  LET a == ToNumber(x)
      b == ToNumber(y)
  IN  CASE a.t = "nan" \/ b.t = "nan" -> NaN
        [] a.t = "inf" \/ b.t = "inf" ->
             IF Sign(a.v) * Sign(b.v) = 0 THEN NaN
             ELSE [t |-> "inf", v |-> Sign(a.v) * Sign(b.v)]
        [] OTHER -> Fin((a.v * b.v) \div Scale)

\* a / k for a literal k > 0 (the code divides by 12 and by 100)
DivBy(x, k) ==
  LET a == ToNumber(x)
  IN  IF a.t = "num" THEN Fin(a.v \div k) ELSE a

\* a <= 0
LeqZero(x) ==
  LET a == ToNumber(x)
  IN  CASE a.t = "nan" -> FALSE
        [] a.t = "inf" -> a.v < 0
        [] OTHER -> a.v <= 0

\* Math.max(a, 0)
MaxZero(x) ==
  LET a == ToNumber(x)
  IN  CASE a.t = "nan" -> NaN
        [] a.t = "inf" -> IF a.v < 0 THEN Zero ELSE a
        [] OTHER -> IF a.v < 0 THEN Zero ELSE a

\* JSON.stringify of a number: a non-finite number is written as null.
JsonNumber(x) == IF x.t \in {"inf", "nan", "undefined"} THEN Null ELSE x

(***************************************************************************)
(* Balance arithmetic                                                      *)
(***************************************************************************)
\* An initial balance that charges interest on degenerate loans too (as the
\* payment and penalty branches do)
calculateInitialBalanceNoGuard(loanAmount, interestRate, term, interestType) ==
  LET monthlyInterestRate ==
        IF interestType = "annually" THEN DivBy(interestRate, 12) ELSE interestRate
  IN  Add(loanAmount, Mul(Mul(loanAmount, DivBy(monthlyInterestRate, 100)), term))

calculateInitialBalance(loanAmount, interestRate, term, interestType) ==
  IF LeqZero(loanAmount) \/ LeqZero(term) THEN loanAmount
  ELSE LET monthlyInterestRate ==
             IF interestType = "annually" THEN DivBy(interestRate, 12)
             ELSE interestRate
           monthlyInterest == Mul(loanAmount, DivBy(monthlyInterestRate, 100))
           totalInterest == Mul(monthlyInterest, term)
       IN  Add(loanAmount, totalInterest)

(***************************************************************************)
(* Identifiers, request bodies, borrower records                           *)
(***************************************************************************)
\* An id is a pair: <<"oid", n>> is the n-th ObjectId the database handed out,
\* <<"gen", n>> the n-th string of generateId (13 digits of Date.now() and up to
\* 9 more characters: never 12 characters, never 24 hex digits, so never a
\* valid ObjectId), <<"hex", 0>> a well-formed ObjectId no record has,
\* <<"bad", 0>> any other non-empty string, <<"none", 0>> a missing id.
NoId == <<"none", 0>>
UnknownOid == <<"hex", 0>>
MalformedId == <<"bad", 0>>

\* A format check that lets every id through
AnyIdIsValid(id) == TRUE

\* ObjectId.isValid(id)
ObjectIdIsValid(id) == id[1] \in {"oid", "hex"}

\* generateId()
generateId(n) == <<"gen", n>>

\* The borrower of handleCreateLoan, before it has an id.  name, contact,
\* address, nextDueDate and monthlyPayment are copied from the body and never
\* read again; the model keeps the name only.
NewBorrower(body, createdAt) ==
  [ id |-> NoId,
    name |-> body.name,
    loanAmount |-> NumberOrZero(body.loanAmount),
    term |-> NumberOrZero(body.term),
    interestRate |-> NumberOrZero(body.interestRate),
    interestType |-> IF body.interestType = "" THEN "monthly" ELSE body.interestType,
    createdAt |-> createdAt,
    payments |-> << >>,
    penalties |-> << >>,
    totalPenalties |-> Zero,
    remainingBalance |->
      calculateInitialBalance(NumberOrZero(body.loanAmount),
                              NumberOrZero(body.interestRate),
                              NumberOrZero(body.term),
                              IF body.interestType = "" THEN "monthly"
                              ELSE body.interestType) ]

\* A validation that asks for the name only
MissingName(body) == body.name = ""

\* !body.name || !body.contact || !body.address ("" stands for a missing or
\* empty field: both are falsy)
MissingRequired(body) == body.name = "" \/ body.contact = "" \/ body.address = ""

\* JSON.stringify followed by JSON.parse of one borrower
JsonRecord(p) == [amount |-> JsonNumber(p.amount)]

JsonBorrower(b) ==
  [ b EXCEPT !.loanAmount = JsonNumber(@),
             !.term = JsonNumber(@),
             !.interestRate = JsonNumber(@),
             !.totalPenalties = JsonNumber(@),
             !.remainingBalance = JsonNumber(@),
             !.payments = [i \in DOMAIN @ |-> JsonRecord(@[i])],
             !.penalties = [i \in DOMAIN @ |-> JsonRecord(@[i])] ]

JsonBorrowers(bs) == [i \in DOMAIN bs |-> JsonBorrower(bs[i])]

(***************************************************************************)
(* The file store                                                          *)
(***************************************************************************)
\* The file is [exists, corrupt, borrowers]: corrupt when its text is not JSON
\* (a write that failed part-way left it so).
NoFile == [exists |-> FALSE, corrupt |-> FALSE, borrowers |-> << >>]

\* readData(): the parsed document, or { borrowers: [] } when the file is
\* missing or reading or parsing it throws.
readData(file) ==
  IF file.exists /\ ~file.corrupt THEN file.borrowers ELSE << >>

\* writeData(data): the file after writeFileSync.  outcome "ok": the JSON text
\* of data; "failed": writeFileSync threw before touching the file; "torn": it
\* threw after truncating it.  writeData returns true for "ok" only.
writeData(file, borrowers, outcome) ==
  CASE outcome = "ok" ->
         [exists |-> TRUE, corrupt |-> FALSE, borrowers |-> JsonBorrowers(borrowers)]
    [] outcome = "torn" -> [exists |-> TRUE, corrupt |-> TRUE, borrowers |-> << >>]
    [] OTHER -> file

\* data.borrowers.findIndex(b => b._id === id), 0 for -1
FindIndex(borrowers, id) ==
  IF \E i \in DOMAIN borrowers : borrowers[i].id = id
  THEN CHOOSE i \in DOMAIN borrowers :
         /\ borrowers[i].id = id
         /\ \A j \in DOMAIN borrowers : borrowers[j].id = id => i <= j
  ELSE 0

\* data.borrowers.splice(i, 1)
Splice(borrowers, i) ==
  [j \in 1..(Len(borrowers) - 1) |-> IF j < i THEN borrowers[j] ELSE borrowers[j + 1]]

\* Array.prototype.sort((a, b) => new Date(b.createdAt) - new Date(a.createdAt)):
\* newest first, stable
RECURSIVE InsertDesc(_, _)
InsertDesc(sorted, b) ==
  IF sorted = << >> THEN <<b>>
  ELSE IF Head(sorted).createdAt >= b.createdAt
       THEN <<Head(sorted)>> \o InsertDesc(Tail(sorted), b)
       ELSE <<b>> \o sorted

\* A list that returns the file's records in the order they were written
NoSort(borrowers) == borrowers

RECURSIVE SortDesc(_)
SortDesc(borrowers) ==
  IF borrowers = << >> THEN << >>
  ELSE InsertDesc(SortDesc(SubSeq(borrowers, 1, Len(borrowers) - 1)),
                  borrowers[Len(borrowers)])

(***************************************************************************)
(* The database store: the borrowers collection                            *)
(***************************************************************************)
\* find({}).sort({ createdAt: -1 }).toArray(): newest first; the server
\* promises no order among documents of equal createdAt.
IsDescending(s) == \A i \in 1..(Len(s) - 1) : s[i].createdAt >= s[i + 1].createdAt

FindSorted(coll) ==
  { [i \in DOMAIN coll |-> coll[f[i]]] :
      f \in { g \in [DOMAIN coll -> DOMAIN coll] :
                \A i, j \in DOMAIN coll : i # j => g[i] # g[j] } }
  \cap { s \in [DOMAIN coll -> { coll[i] : i \in DOMAIN coll }] : IsDescending(s) }

\* insertOne(borrower): the collection with the document under a fresh ObjectId
InsertOne(coll, borrower, n) == Append(coll, [borrower EXCEPT !.id = <<"oid", n>>])

\* findOne({ _id }): the document in a sequence of length 1, or << >>
FindOne(coll, id) ==
  IF FindIndex(coll, id) = 0 THEN << >> ELSE <<coll[FindIndex(coll, id)]>>

\* An update that $sets payments to the new payment instead of pushing it
UpdateOnePaymentReplacing(coll, id, paymentRecord, newBalance) ==
  [i \in DOMAIN coll |->
     IF i = FindIndex(coll, id)
     THEN [coll[i] EXCEPT !.payments = <<paymentRecord>>,
                          !.remainingBalance = newBalance]
     ELSE coll[i]]

\* updateOne({ _id }, { $push: { payments }, $set: { remainingBalance } });
\* a filter that matches nothing changes nothing and is no error
UpdateOnePayment(coll, id, paymentRecord, newBalance) ==
  [i \in DOMAIN coll |->
     IF i = FindIndex(coll, id)
     THEN [coll[i] EXCEPT !.payments = Append(@, paymentRecord),
                          !.remainingBalance = newBalance]
     ELSE coll[i]]

\* updateOne({ _id }, { $push: { penalties }, $set: { totalPenalties, remainingBalance } })
UpdateOnePenalty(coll, id, penaltyRecord, newTotalPenalties, newBalance) ==
  [i \in DOMAIN coll |->
     IF i = FindIndex(coll, id)
     THEN [coll[i] EXCEPT !.penalties = Append(@, penaltyRecord),
                          !.totalPenalties = newTotalPenalties,
                          !.remainingBalance = newBalance]
     ELSE coll[i]]

\* A deleteOne that reports the deletion and removes nothing
DeleteNone(coll, id) == coll

\* deleteOne({ _id }): the collection after the call
DeleteOne(coll, id) ==
  IF FindIndex(coll, id) = 0 THEN coll ELSE Splice(coll, FindIndex(coll, id))

(***************************************************************************)
(* The handlers.  w is the process and store state (the variables below),  *)
(* q one request: its inputs, its locals and where it stands.  Each        *)
(* operator runs one stretch of a handler, from one await to the next, and *)
(* gives the state after it as [w |-> ..., q |-> ...].                     *)
(***************************************************************************)
NoRes ==
  [ status |-> 0, message |-> "", remainingBalance |-> Null,
    totalPenalties |-> Null, borrowers |-> << >> ]

Reply(status, message) == [NoRes EXCEPT !.status = status, !.message = message]

Finish(w, q, res) == [w |-> w, q |-> [q EXCEPT !.pc = "done", !.res = res]]

\* A backend test that trusts the handle alone
UseMongoByHandle(w, q) == q.database

\* database && !useFileStorage
UseMongo(w, q) == q.database /\ ~w.useFileStorage

\* connectToDatabase(), up to its await: "db" and "null" are its results,
\* "pending" means client.connect() is under way.
connectToDatabase(w) ==
  IF w.db THEN [w |-> w, result |-> "db"]
  ELSE IF w.useFileStorage THEN [w |-> w, result |-> "null"]
  ELSE IF ~w.MongoClient
       THEN [w |-> [w EXCEPT !.useFileStorage = TRUE], result |-> "null"]
  ELSE IF ~w.uri
       THEN [w |-> [w EXCEPT !.useFileStorage = TRUE], result |-> "null"]
  ELSE [w |-> w, result |-> "pending"]

\* connectToDatabase(), from the end of client.connect() on
connectToDatabaseEnd(w, connected) ==
  IF connected THEN [w |-> [w EXCEPT !.db = TRUE], result |-> "db"]
  ELSE [w |-> [w EXCEPT !.useFileStorage = TRUE], result |-> "null"]

\* A handler from its entry to its await of connectToDatabase().
\* handleCreateLoan validates and builds the borrower before it connects.
HandlerEntry(w, q) ==
  IF q.op = "POST" /\ MissingRequired(q.body)
  THEN Finish(w, q, Reply(400, "Missing required borrower fields."))
  ELSE LET c == connectToDatabase(w)
       IN  [ w |-> c.w,
             q |-> [q EXCEPT !.pc = IF c.result = "pending" THEN "connecting"
                                    ELSE "connected",
                             !.database = (c.result = "db"),
                             !.createdAt = w.now] ]

\* The await of connectToDatabase() of a request whose connect was pending
ConnectEnd(w, q, connected) ==
  LET c == connectToDatabaseEnd(w, connected)
  IN  [w |-> c.w, q |-> [q EXCEPT !.pc = "connected", !.database = (c.result = "db")]]

\* ---- handleGetLoans
handleGetLoans(w, q, found, dbOk) ==
  IF UseMongo(w, q)
  THEN IF dbOk
       THEN Finish([w EXCEPT !.dbCall = "find"], q,
                   [Reply(200, "") EXCEPT !.borrowers = found])
       ELSE [ w |-> [w EXCEPT !.dbCall = "find"],
              q |-> [q EXCEPT !.pc = "catch", !.dbError = TRUE] ]
  ELSE Finish(w, q, [Reply(200, "") EXCEPT !.borrowers = SortDesc(readData(w.dataFile))])

handleGetLoansCatch(w, q) ==
  Finish(w, q, [Reply(200, "") EXCEPT !.borrowers = SortDesc(readData(w.dataFile))])

\* ---- handleCreateLoan
\* A create that writes the new borrower alone, without reading the file
CreateInFileNoRead(w, q, borrower, outcome) ==
  LET b == [borrower EXCEPT !.id = generateId(w.nextId + 1)]
      w1 == [w EXCEPT !.nextId = @ + 1,
                      !.dataFile = writeData(@, <<b>>, outcome),
                      !.fileFault = @ \/ outcome # "ok",
                      !.fallbackCreated =
                        IF outcome = "ok" /\ q.fileActive THEN @ \cup {b.id} ELSE @]
  IN  IF outcome = "ok"
      THEN Finish(w1, q, [Reply(201, "") EXCEPT !.borrowers = <<b>>,
                                                !.remainingBalance = b.remainingBalance,
                                                !.totalPenalties = b.totalPenalties])
      ELSE Finish(w1, q, Reply(500, "Failed to save borrower"))

\* The file branch of create, and the whole of its catch block: a fresh id,
\* read, push, write.
CreateInFile(w, q, borrower, outcome) ==
  LET b == [borrower EXCEPT !.id = generateId(w.nextId + 1)]
      data == Append(readData(w.dataFile), b)
      w1 == [w EXCEPT !.nextId = @ + 1,
                      !.dataFile = writeData(@, data, outcome),
                      !.fileFault = @ \/ outcome # "ok",
                      !.fallbackCreated =
                        IF outcome = "ok" /\ q.fileActive THEN @ \cup {b.id} ELSE @]
  IN  IF outcome = "ok"
      THEN Finish(w1, q, [Reply(201, "") EXCEPT !.borrowers = <<b>>,
                                                !.remainingBalance = b.remainingBalance,
                                                !.totalPenalties = b.totalPenalties])
      ELSE Finish(w1, q, Reply(500, "Failed to save borrower"))

handleCreateLoan(w, q, dbOk, outcome) ==
  LET borrower == NewBorrower(q.body, q.createdAt)
  IN  IF UseMongo(w, q)
      THEN IF dbOk
           THEN LET doc == [borrower EXCEPT !.id = <<"oid", w.nextId + 1>>]
                IN  Finish([w EXCEPT !.dbCall = "insertOne",
                                     !.nextId = @ + 1,
                                     !.collection = InsertOne(@, borrower, w.nextId + 1)],
                           q,
                           [Reply(201, "") EXCEPT !.borrowers = <<doc>>,
                                                  !.remainingBalance = doc.remainingBalance,
                                                  !.totalPenalties = doc.totalPenalties])
           ELSE [ w |-> [w EXCEPT !.dbCall = "insertOne"],
                  q |-> [q EXCEPT !.pc = "catch", !.dbError = TRUE] ]
      ELSE CreateInFile(w, q, borrower, outcome)

handleCreateLoanCatch(w, q, outcome) ==
  CreateInFile(w, q, NewBorrower(q.body, w.now), outcome)

\* ---- handleUpdateLoan
\* (list || []).reduce((sum, p) => sum + (p.amount || 0), 0)
RECURSIVE SumAmounts(_)
SumAmounts(list) ==
  IF list = << >> THEN Zero
  ELSE Add(SumAmounts(SubSeq(list, 1, Len(list) - 1)), OrZero(list[Len(list)].amount))

\* totalInterest of the payment and of the penalty branch
TotalInterest(borrower) ==
  LET loanAmount == OrZero(borrower.loanAmount)
  IN  IF Truthy(borrower.interestRate) /\ Truthy(borrower.term)
      THEN LET monthlyInterestRate ==
                 IF borrower.interestType = "annually"
                 THEN DivBy(borrower.interestRate, 12)
                 ELSE borrower.interestRate
               monthlyInterest == Mul(loanAmount, DivBy(monthlyInterestRate, 100))
           IN  Mul(monthlyInterest, borrower.term)
      ELSE Zero

\* newBalance of the payment branch
PaymentBalance(borrower, amount) ==
  LET totalPayments == Add(SumAmounts(borrower.payments), amount)
      totalPenalties == OrZero(borrower.totalPenalties)
      loanAmount == OrZero(borrower.loanAmount)
  IN  MaxZero(Sub(Add(Add(loanAmount, TotalInterest(borrower)), totalPenalties),
                  totalPayments))

\* newTotalPenalties of the penalty branch
PenaltyTotal(borrower, amount) == Add(SumAmounts(borrower.penalties), amount)

\* A penalty branch that adds the penalty to the cached balance instead of
\* recomputing it
PenaltyBalanceFromCache(borrower, amount) ==
  Add(OrZero(borrower.remainingBalance), amount)

\* newBalance of the penalty branch
PenaltyBalance(borrower, amount) ==
  LET totalPayments == SumAmounts(borrower.payments)
      loanAmount == OrZero(borrower.loanAmount)
  IN  Sub(Add(Add(loanAmount, TotalInterest(borrower)), PenaltyTotal(borrower, amount)),
          totalPayments)

\* The file after a handler's writeData(data), with the record of a failed write
FileWrite(w, data, outcome) ==
  [w EXCEPT !.dataFile = writeData(@, data, outcome),
            !.fileFault = @ \/ outcome # "ok"]

\* The payment branch from paymentRecord on, borrower being the record read
PaymentTail(w, q, borrower, dbOk, outcome) ==
  LET amount == NumberOrZero(q.amount)
      paymentRecord == [amount |-> amount]
      newBalance == PaymentBalance(borrower, amount)
      ok == [Reply(200, "Payment added successfully.") EXCEPT !.remainingBalance = newBalance]
  IN  IF LeqZero(amount)
      THEN Finish(w, q, Reply(400, "Payment amount must be greater than zero."))
      ELSE IF UseMongo(w, q)
      THEN IF dbOk
           THEN Finish([w EXCEPT !.dbCall = "updateOne",
                                 !.collection = UpdateOnePayment(@, q.id, paymentRecord, newBalance)],
                       q, ok)
           ELSE Finish([w EXCEPT !.dbCall = "updateOne"], [q EXCEPT !.dbError = TRUE],
                       Reply(500, "Internal Server Error"))
      ELSE LET data == readData(w.dataFile)
               borrowerIndex == FindIndex(data, q.id)
               data1 == [data EXCEPT ![borrowerIndex] =
                           [@ EXCEPT !.payments = Append(@, paymentRecord),
                                     !.remainingBalance = newBalance]]
           IN  IF borrowerIndex = 0 THEN Finish(w, q, Reply(404, "Borrower not found."))
               ELSE IF outcome # "ok"
               THEN Finish(FileWrite(w, data1, outcome), q, Reply(500, "Failed to save payment"))
               ELSE Finish(FileWrite(w, data1, outcome), q, ok)

\* The penalty branch from penaltyRecord on
PenaltyTail(w, q, borrower, dbOk, outcome) ==
  LET amount == NumberOrZero(q.amount)
      penaltyRecord == [amount |-> amount]
      newTotalPenalties == PenaltyTotal(borrower, amount)
      newBalance == PenaltyBalance(borrower, amount)
      ok == [Reply(200, "Penalty added successfully.") EXCEPT
               !.remainingBalance = newBalance, !.totalPenalties = newTotalPenalties]
  IN  IF UseMongo(w, q)
      THEN IF dbOk
           THEN Finish([w EXCEPT !.dbCall = "updateOne",
                                 !.collection = UpdateOnePenalty(@, q.id, penaltyRecord,
                                                                 newTotalPenalties, newBalance)],
                       q, ok)
           ELSE Finish([w EXCEPT !.dbCall = "updateOne"], [q EXCEPT !.dbError = TRUE],
                       Reply(500, "Internal Server Error"))
      ELSE LET data == readData(w.dataFile)
               borrowerIndex == FindIndex(data, q.id)
               data1 == [data EXCEPT ![borrowerIndex] =
                           [@ EXCEPT !.penalties = Append(@, penaltyRecord),
                                     !.totalPenalties = newTotalPenalties,
                                     !.remainingBalance = newBalance]]
           IN  IF borrowerIndex = 0 THEN Finish(w, q, Reply(404, "Borrower not found."))
               ELSE IF outcome # "ok"
               THEN Finish(FileWrite(w, data1, outcome), q, Reply(500, "Failed to save penalty"))
               ELSE Finish(FileWrite(w, data1, outcome), q, ok)

UpdateTail(w, q, borrower, dbOk, outcome) ==
  IF q.kind = "payment" THEN PaymentTail(w, q, borrower, dbOk, outcome)
  ELSE PenaltyTail(w, q, borrower, dbOk, outcome)

\* A handleUpdateLoan that yields between its read of the file and its write,
\* as it does between findOne and updateOne
handleUpdateLoanYielding(w, q, dbOk, outcome) ==
  IF q.id = NoId THEN Finish(w, q, Reply(400, "Missing borrower id."))
  ELSE IF q.kind = "none"
  THEN Finish(w, q, Reply(400, "Invalid request. Specify 'payment' or 'penalty'."))
  ELSE IF UseMongo(w, q)
  THEN IF ~ObjectIdIsValid(q.id)
       THEN Finish(w, q, Reply(400, "Invalid borrower ID format."))
       ELSE IF dbOk
       THEN [ w |-> [w EXCEPT !.dbCall = "findOne"],
              q |-> [q EXCEPT !.pc = "findOne", !.borrower = FindOne(w.collection, q.id)] ]
       ELSE Finish([w EXCEPT !.dbCall = "findOne"], [q EXCEPT !.dbError = TRUE],
                   Reply(500, "Internal Server Error"))
  ELSE LET data == readData(w.dataFile)
           borrowerIndex == FindIndex(data, q.id)
       IN  IF borrowerIndex = 0 THEN Finish(w, q, Reply(404, "Borrower not found."))
           ELSE [ w |-> w,
                  q |-> [q EXCEPT !.pc = "findOne", !.borrower = <<data[borrowerIndex]>>] ]

\* handleUpdateLoan from its await of connectToDatabase() to its findOne (the
\* database) or to its end (the file)
handleUpdateLoan(w, q, dbOk, outcome) ==
  IF q.id = NoId THEN Finish(w, q, Reply(400, "Missing borrower id."))
  ELSE IF q.kind = "none"
  THEN Finish(w, q, Reply(400, "Invalid request. Specify 'payment' or 'penalty'."))
  ELSE IF UseMongo(w, q)
  THEN IF ~ObjectIdIsValid(q.id)
       THEN Finish(w, q, Reply(400, "Invalid borrower ID format."))
       ELSE IF dbOk
       THEN [ w |-> [w EXCEPT !.dbCall = "findOne"],
              q |-> [q EXCEPT !.pc = "findOne", !.borrower = FindOne(w.collection, q.id)] ]
       ELSE Finish([w EXCEPT !.dbCall = "findOne"], [q EXCEPT !.dbError = TRUE],
                   Reply(500, "Internal Server Error"))
  ELSE LET data == readData(w.dataFile)
           borrowerIndex == FindIndex(data, q.id)
       IN  IF borrowerIndex = 0 THEN Finish(w, q, Reply(404, "Borrower not found."))
           ELSE UpdateTail(w, [q EXCEPT !.borrower = <<data[borrowerIndex]>>],
                           data[borrowerIndex], dbOk, outcome)

\* handleUpdateLoan from the end of its findOne on
handleUpdateLoanFound(w, q, dbOk, outcome) ==
  IF q.borrower = << >> THEN Finish(w, q, Reply(404, "Borrower not found."))
  ELSE UpdateTail(w, q, q.borrower[1], dbOk, outcome)

\* ---- handleDeleteLoan
handleDeleteLoan(w, q, dbOk, outcome) ==
  IF q.id = NoId THEN Finish(w, q, Reply(400, "Missing borrower id."))
  ELSE IF UseMongo(w, q)
  THEN IF ~ObjectIdIsValid(q.id)
       THEN Finish(w, q, Reply(400, "Invalid borrower ID format."))
       ELSE IF ~dbOk
       THEN Finish([w EXCEPT !.dbCall = "deleteOne"], [q EXCEPT !.dbError = TRUE],
                   Reply(500, "Internal Server Error"))
       ELSE IF FindIndex(w.collection, q.id) = 0
       THEN Finish([w EXCEPT !.dbCall = "deleteOne"], q, Reply(404, "Borrower not found."))
       ELSE Finish([w EXCEPT !.dbCall = "deleteOne",
                             !.collection = DeleteOne(@, q.id),
                             !.deleted = @ \cup {q.id}],
                   q, Reply(200, "Borrower deleted successfully."))
  ELSE LET data == readData(w.dataFile)
           borrowerIndex == FindIndex(data, q.id)
       IN  IF borrowerIndex = 0 THEN Finish(w, q, Reply(404, "Borrower not found."))
           ELSE IF outcome # "ok"
           THEN Finish(FileWrite(w, Splice(data, borrowerIndex), outcome), q,
                       Reply(500, "Failed to delete borrower"))
           ELSE Finish([FileWrite(w, Splice(data, borrowerIndex), outcome)
                          EXCEPT !.deleted = @ \cup {q.id}],
                       q, Reply(200, "Borrower deleted successfully."))

(***************************************************************************)
(* State                                                                   *)
(***************************************************************************)
VARIABLES
  MongoClient,      \* require("mongodb") succeeded at load
  uri,              \* process.env.MONGODB_URI is set
  db,               \* the module's db is set (a connection was made)
  useFileStorage,   \* the backend selector
  collection,       \* the database's borrowers collection, in insertion order
  dataFile,         \* /tmp/data.json
  nextId,           \* ids handed out so far (ObjectIds and generateId strings)
  now,              \* the clock new Date() reads
  req,              \* the requests being served
  served,           \* the request that ended in the last step, with its response
  dbCall,           \* history: the database call the last step made, or "none"
  fileFault,        \* history: some writeFileSync has failed
  fallbackCreated,  \* history: ids created by requests that began file-active
  deleted,          \* history: ids whose delete succeeded
  mirror            \* a second process, started without the mongodb package

vars ==
  << MongoClient, uri, db, useFileStorage, collection, dataFile, nextId, now, req,
     served, dbCall, fileFault, fallbackCreated, deleted, mirror >>

\* Bounds of the model
NumRequests == 2
MaxBorrowers == 2
MaxHistory == 2
SeqHistory == 4
MaxTime == 1

Requests == 1..NumRequests

World ==
  [ MongoClient |-> MongoClient, uri |-> uri, db |-> db,
    useFileStorage |-> useFileStorage, collection |-> collection,
    dataFile |-> dataFile, nextId |-> nextId, now |-> now, dbCall |-> "none",
    fileFault |-> fileFault, fallbackCreated |-> fallbackCreated, deleted |-> deleted ]

NoBody ==
  [ name |-> "", contact |-> "", address |-> "", loanAmount |-> Undefined,
    term |-> Undefined, interestRate |-> Undefined, interestType |-> "" ]

Idle ==
  [ pc |-> "idle", op |-> "GET", id |-> NoId, kind |-> "none", amount |-> Undefined,
    body |-> NoBody, database |-> FALSE, borrower |-> << >>, createdAt |-> 0,
    res |-> NoRes, dbError |-> FALSE, fileActive |-> FALSE ]

\* The process and the stores after the step of request r whose result is out
Apply(r, out) ==
  /\ db' = out.w.db
  /\ useFileStorage' = out.w.useFileStorage
  /\ collection' = out.w.collection
  /\ dataFile' = out.w.dataFile
  /\ nextId' = out.w.nextId
  /\ now' = out.w.now
  /\ dbCall' = out.w.dbCall
  /\ fileFault' = out.w.fileFault
  /\ fallbackCreated' = out.w.fallbackCreated
  /\ deleted' = out.w.deleted
  /\ req' = [req EXCEPT ![r] = IF out.q.pc = "done" THEN Idle ELSE out.q]
  /\ served' = IF out.q.pc = "done" THEN out.q ELSE Idle
  /\ UNCHANGED << MongoClient, uri >>

\* The step of request r whose result is out
Commit(r, out) == Apply(r, out) /\ UNCHANGED mirror

\* A process loaded without the mongodb package (useFileStorage = !MongoClient),
\* its file missing
FileOnlyWorld ==
  [ MongoClient |-> FALSE, uri |-> FALSE, db |-> FALSE, useFileStorage |-> TRUE,
    collection |-> << >>, dataFile |-> NoFile, nextId |-> 0, now |-> 0,
    dbCall |-> "none", fileFault |-> FALSE, fallbackCreated |-> {}, deleted |-> {} ]

\* A request as it arrives
Arrival(op, id, kind, amount, body) ==
  [Idle EXCEPT !.pc = "entry", !.op = op, !.id = id, !.kind = kind,
               !.amount = amount, !.body = body, !.fileActive = useFileStorage]

Init ==
  /\ MongoClient \in BOOLEAN
  /\ uri \in BOOLEAN
  /\ db = FALSE
  /\ useFileStorage = ~MongoClient
  /\ collection = << >>
  /\ dataFile = NoFile
  /\ nextId = 0
  /\ now = 0
  /\ req = [r \in Requests |-> Idle]
  /\ served = Idle
  /\ dbCall = "none"
  /\ fileFault = FALSE
  /\ fallbackCreated = {}
  /\ deleted = {}
  /\ mirror = [w |-> FileOnlyWorld, served |-> Idle]

(***************************************************************************)
(* Inputs                                                                  *)
(***************************************************************************)
Loan(loanAmount, interestRate, term, interestType) ==
  [ name |-> "Ann", contact |-> "555", address |-> "1 Main St",
    loanAmount |-> loanAmount, term |-> term, interestRate |-> interestRate,
    interestType |-> interestType ]

Bodies == { Loan(N(1000), N(12), N(10), "monthly") }

Updates == { <<"payment", N(500)>>, <<"penalty", N(500)>> }

Stored == { collection[i] : i \in DOMAIN collection }
            \cup { dataFile.borrowers[i] : i \in DOMAIN dataFile.borrowers }

\* The ids a caller may send: those of stored and of deleted records, a
\* well-formed ObjectId of no record, a malformed string, none
StoredIds == { b.id : b \in Stored }
CallerIds == StoredIds \cup deleted \cup { UnknownOid, MalformedId, NoId }

InFlight(op) == Cardinality({ r \in Requests : req[r].op = op /\ req[r].pc # "idle" })

RECURSIVE HistoryOf(_)
HistoryOf(bs) ==
  IF bs = << >> THEN 0
  ELSE Len(Head(bs).payments) + Len(Head(bs).penalties) + HistoryOf(Tail(bs))

TotalHistory == HistoryOf(collection) + HistoryOf(dataFile.borrowers)

\* The clock may have moved on since it was last read
Ticks == IF now < MaxTime THEN {0, 1} ELSE {0}

WriteOutcomes == {"ok", "failed", "torn"}

(***************************************************************************)
(* Actions: a request arrives and its handler runs to its first await      *)
(***************************************************************************)
Free(r) == req[r].pc = "idle"

StartGet(r) ==
  /\ Free(r)
  /\ Commit(r, HandlerEntry(World, Arrival("GET", NoId, "none", Undefined, NoBody)))

StartCreate(r, bodies) ==
  /\ Free(r)
  /\ nextId + InFlight("POST") < MaxBorrowers
  /\ \E body \in bodies, tick \in Ticks :
       Commit(r, HandlerEntry([World EXCEPT !.now = @ + tick],
                              Arrival("POST", NoId, "none", Undefined, body)))

\* updates: the bodies a caller may send, as pairs <<kind, amount>>
StartUpdate(r, ids, updates, limit) ==
  /\ Free(r)
  /\ TotalHistory + InFlight("PUT") < limit
  /\ \E id \in ids, u \in updates :
       Commit(r, HandlerEntry(World, Arrival("PUT", id, u[1], u[2], NoBody)))

StartDelete(r, ids) ==
  /\ Free(r)
  /\ \E id \in ids :
       Commit(r, HandlerEntry(World, Arrival("DELETE", id, "none", Undefined, NoBody)))

(***************************************************************************)
(* Actions: an await ends and the handler runs to its next await           *)
(***************************************************************************)
ConnectOk(r) ==
  /\ req[r].pc = "connecting"
  /\ Commit(r, ConnectEnd(World, req[r], TRUE))

ConnectFail(r) ==
  /\ req[r].pc = "connecting"
  /\ Commit(r, ConnectEnd(World, req[r], FALSE))

\* What the database and the file system may answer to the stretch r runs next
DbAnswers(r) == IF UseMongo(World, req[r]) THEN BOOLEAN ELSE {TRUE}
FileAnswers(r) == IF UseMongo(World, req[r]) THEN {"ok"} ELSE WriteOutcomes

GetLoans(r) ==
  /\ req[r].pc = "connected" /\ req[r].op = "GET"
  /\ \E dbOk \in DbAnswers(r), found \in FindSorted(collection) :
       Commit(r, handleGetLoans(World, req[r], found, dbOk))

GetLoansCatch(r) ==
  /\ req[r].pc = "catch" /\ req[r].op = "GET"
  /\ Commit(r, handleGetLoansCatch(World, req[r]))

CreateLoan(r) ==
  /\ req[r].pc = "connected" /\ req[r].op = "POST"
  /\ \E dbOk \in DbAnswers(r), outcome \in FileAnswers(r) :
       Commit(r, handleCreateLoan(World, req[r], dbOk, outcome))

CreateLoanCatch(r) ==
  /\ req[r].pc = "catch" /\ req[r].op = "POST"
  /\ \E outcome \in WriteOutcomes, tick \in Ticks :
       Commit(r, handleCreateLoanCatch([World EXCEPT !.now = @ + tick], req[r], outcome))

UpdateLoan(r) ==
  /\ req[r].pc = "connected" /\ req[r].op = "PUT"
  /\ \E dbOk \in DbAnswers(r), outcome \in FileAnswers(r) :
       Commit(r, handleUpdateLoan(World, req[r], dbOk, outcome))

UpdateLoanFound(r) ==
  /\ req[r].pc = "findOne"
  /\ \E dbOk \in DbAnswers(r), outcome \in FileAnswers(r) :
       Commit(r, handleUpdateLoanFound(World, req[r], dbOk, outcome))

DeleteLoan(r) ==
  /\ req[r].pc = "connected" /\ req[r].op = "DELETE"
  /\ \E dbOk \in DbAnswers(r), outcome \in FileAnswers(r) :
       Commit(r, handleDeleteLoan(World, req[r], dbOk, outcome))

\* The stretches after an await, common to every specification
Continue(r) ==
  \/ ConnectOk(r)
  \/ ConnectFail(r)
  \/ GetLoans(r)
  \/ GetLoansCatch(r)
  \/ CreateLoan(r)
  \/ CreateLoanCatch(r)
  \/ UpdateLoan(r)
  \/ UpdateLoanFound(r)
  \/ DeleteLoan(r)

(***************************************************************************)
(* Spec: requests overlap freely                                           *)
(***************************************************************************)
Next ==
  \E r \in Requests :
    \/ StartGet(r)
    \/ StartCreate(r, Bodies)
    \/ StartUpdate(r, StoredIds, Updates, MaxHistory)
    \/ StartDelete(r, StoredIds)
    \/ Continue(r)

Spec == Init /\ [][Next]_vars

(***************************************************************************)
(* SpecSeq: one request at a time, each run to its end, on loans with and  *)
(* without interest and with payments below and above the balance          *)
(***************************************************************************)
SeqBodies ==
  { Loan(N(1000), N(12), N(10), "monthly"),
    Loan(N(1000), N(12), N(-1), "monthly") }

SeqUpdates == { <<"payment", N(500)>>, <<"payment", N(2500)>>, <<"penalty", N(50)>> }

NextSeq ==
  \/ StartGet(1)
  \/ StartCreate(1, SeqBodies)
  \/ StartUpdate(1, StoredIds, SeqUpdates, SeqHistory)
  \/ StartDelete(1, StoredIds)
  \/ Continue(1)

SpecSeq == Init /\ [][NextSeq]_vars

(***************************************************************************)
(* SpecCreate: create, list and delete, one request at a time, over        *)
(* bodies with missing, non-numeric, zero and negative fields              *)
(***************************************************************************)
CreateBodies ==
  { Loan(N(1000), N(12), N(10), "monthly"),
    Loan(N(1000), N(12), N(10), "annually"),
    Loan(N(1000), N(12), N(10), ""),
    Loan(N(1000), N(12), Zero, "monthly"),
    Loan(N(1000), N(12), N(-1), "annually"),
    Loan(Zero, N(12), N(10), "monthly"),
    Loan(N(-100), N(12), N(10), "monthly"),
    Loan(Undefined, N(12), N(10), "annually"),
    Loan(N(1000), NotANumber, N(10), "monthly"),
    Loan(N(1000), N(12), NotANumber, ""),
    Loan(NotANumber, Undefined, Undefined, ""),
    [Loan(N(1000), N(12), N(10), "monthly") EXCEPT !.name = ""],
    [Loan(N(1000), N(12), N(10), "monthly") EXCEPT !.contact = ""],
    [Loan(N(1000), N(12), N(10), "monthly") EXCEPT !.address = ""] }

NextCreate ==
  \/ StartGet(1)
  \/ StartCreate(1, CreateBodies)
  \/ StartDelete(1, CallerIds)
  \/ ConnectOk(1)
  \/ ConnectFail(1)
  \/ GetLoans(1)
  \/ GetLoansCatch(1)
  \/ CreateLoan(1)
  \/ CreateLoanCatch(1)
  \/ DeleteLoan(1)

SpecCreate == Init /\ [][NextCreate]_vars

(***************************************************************************)
(* SpecIds: one request at a time, with the ids and the amounts a caller   *)
(* may get wrong: ids of no record, of deleted records, malformed and      *)
(* missing ids; zero, negative, missing and non-numeric amounts            *)
(***************************************************************************)
IdsUpdates ==
  { <<"payment", N(500)>>, <<"payment", Zero>>, <<"payment", N(-5)>>,
    <<"payment", Undefined>>, <<"payment", NotANumber>>,
    <<"penalty", N(50)>>, <<"none", Undefined>> }

NextIds ==
  \/ StartGet(1)
  \/ StartCreate(1, Bodies)
  \/ StartUpdate(1, CallerIds, IdsUpdates, MaxHistory)
  \/ StartDelete(1, CallerIds)
  \/ Continue(1)

SpecIds == Init /\ [][NextIds]_vars

(***************************************************************************)
(* SpecEquiv: the same requests, one at a time, sent to a process that      *)
(* serves them from the database and to a process that serves them from    *)
(* its file.  No connection, database call or file write fails.  The       *)
(* variables above are the first process, mirror is the second.            *)
(***************************************************************************)
\* The handler of a request that has its database handle
Dispatch(w, q, found) ==
  CASE q.op = "GET" -> handleGetLoans(w, q, found, TRUE)
    [] q.op = "POST" -> handleCreateLoan(w, q, TRUE, "ok")
    [] q.op = "PUT" -> handleUpdateLoan(w, q, TRUE, "ok")
    [] OTHER -> handleDeleteLoan(w, q, TRUE, "ok")

\* The stretches of a request in turn, every await succeeding; o is the state
\* after the stretch before
AfterConnect(o) ==
  IF o.q.pc = "connecting" THEN ConnectEnd(o.w, o.q, TRUE) ELSE o

AfterHandler(o, found) ==
  IF o.q.pc = "connected" THEN Dispatch(o.w, o.q, found) ELSE o

AfterFindOne(o) ==
  IF o.q.pc = "findOne" THEN handleUpdateLoanFound(o.w, o.q, TRUE, "ok") ELSE o

\* A request from its arrival to its response
Serve(w, q, found) ==
  AfterFindOne(AfterHandler(AfterConnect(HandlerEntry(w, q)), found))

\* 1e999 in a JSON body parses to Infinity
EquivBodies ==
  { Loan(N(1000), N(12), N(10), "monthly"),
    Loan(Infinity, N(12), N(10), "monthly"),
    [Loan(N(1000), N(12), N(10), "monthly") EXCEPT !.name = ""] }

EquivUpdates ==
  { <<"payment", N(50)>>, <<"payment", N(2500)>>, <<"payment", Zero>>,
    <<"penalty", N(50)>>, <<"none", Undefined>> }

EquivHistory == 2

\* The n-th record created is <<"oid", n>> in the database and <<"gen", n>> in
\* the file
Created == 1..(IF nextId >= mirror.w.nextId THEN nextId ELSE mirror.w.nextId)

\* The second process after the request whose result is out
Mirrored(out) == [w |-> out.w, served |-> out.q]

\* One request served by both processes; the clock moves alike for both
Both(op, n, kind, amount, body, tick, found) ==
  /\ Free(1)
  /\ Apply(1, Serve([World EXCEPT !.now = @ + tick],
                    Arrival(op, IF n = 0 THEN NoId ELSE <<"oid", n>>, kind, amount, body),
                    found))
  /\ mirror' =
       Mirrored(Serve([mirror.w EXCEPT !.now = @ + tick],
                      [Arrival(op, IF n = 0 THEN NoId ELSE generateId(n), kind, amount, body)
                         EXCEPT !.fileActive = TRUE],
                      << >>))

BothGet ==
  \E found \in FindSorted(collection) : Both("GET", 0, "none", Undefined, NoBody, 0, found)

BothCreate ==
  /\ nextId < MaxBorrowers
  /\ mirror.w.nextId < MaxBorrowers
  /\ \E body \in EquivBodies, tick \in Ticks :
       Both("POST", 0, "none", Undefined, body, tick, << >>)

BothUpdate ==
  /\ HistoryOf(collection) < EquivHistory
  /\ HistoryOf(mirror.w.dataFile.borrowers) < EquivHistory
  /\ \E n \in Created, u \in EquivUpdates : Both("PUT", n, u[1], u[2], NoBody, 0, << >>)

BothDelete ==
  \E n \in Created : Both("DELETE", n, "none", Undefined, NoBody, 0, << >>)

InitEquiv == Init /\ MongoClient /\ uri

NextEquiv == BothGet \/ BothCreate \/ BothUpdate \/ BothDelete

SpecEquiv == InitEquiv /\ [][NextEquiv]_vars

(***************************************************************************)
(* Properties                                                              *)
(***************************************************************************)
\* The stored record of an id (ids are unique over both stores)
Lookup(id) == CHOOSE b \in Stored : b.id = id

SameTermsAndHistory(a, b) ==
  /\ a.loanAmount = b.loanAmount
  /\ a.interestRate = b.interestRate
  /\ a.term = b.term
  /\ a.interestType = b.interestType
  /\ a.payments = b.payments
  /\ a.penalties = b.penalties

\* C1 as claimed: two stored borrowers with equal loanAmount, interestRate,
\* term, interestType, payments and penalties have equal remainingBalance,
\* whatever the order their payments and penalties were applied in.
C1_BalanceIsFunctionOfFields ==
  \A a, b \in Stored : SameTermsAndHistory(a, b) => a.remainingBalance = b.remainingBalance

\* C1 amended: two stored borrowers with equal loanAmount, interestRate, term,
\* interestType, payments and penalties have equal remainingBalance once a
\* negative balance is read as zero: the stored values differ only where the
\* unfloored total is negative, which a payment stores as 0 and a penalty as
\* the negative total.
C1_BalanceIsFunctionOfFieldsUpToFloor ==
  \A a, b \in Stored :
    SameTermsAndHistory(a, b) => MaxZero(a.remainingBalance) = MaxZero(b.remainingBalance)

\* C1 witness: two borrowers with the same terms, the same payment and the same
\* penalty, applied in different orders (their balances differ)
C1_Witness ==
  \E a, b \in Stored :
    /\ a.id # b.id
    /\ SameTermsAndHistory(a, b)
    /\ a.payments # << >>
    /\ a.penalties # << >>
    /\ a.remainingBalance # b.remainingBalance

\* The request that ended in the last step was a successful payment / penalty
PaymentServed == served.op = "PUT" /\ served.kind = "payment" /\ served.res.status = 200
PenaltyServed == served.op = "PUT" /\ served.kind = "penalty" /\ served.res.status = 200

\* C3 as claimed: a penalty p applied to a borrower with no prior penalties
\* raises its stored totalPenalties by exactly p and its stored
\* remainingBalance by exactly p, whatever its terms and payments.
C3_PenaltyRaisesBothByAmount ==
  (PenaltyServed /\ served.borrower[1].penalties = << >>) =>
    LET before == served.borrower[1]
        after == Lookup(served.id)
        p == NumberOrZero(served.amount)
    IN  /\ after.totalPenalties = Add(before.totalPenalties, p)
        /\ after.remainingBalance = Add(before.remainingBalance, p)

\* C4 as claimed: a successful payment stores and returns
\* max(loanAmount + totalInterest + totalPenalties - all payments, 0), never a
\* negative balance, and a payment a <= b on a borrower with balance b and no
\* prior payments leaves b - a.
C4_PaymentBalance ==
  PaymentServed =>
    LET before == served.borrower[1]
        after == Lookup(served.id)
        a == NumberOrZero(served.amount)
    IN  /\ after.remainingBalance = served.res.remainingBalance
        /\ after.remainingBalance =
             MaxZero(Sub(Add(Add(after.loanAmount, TotalInterest(after)), after.totalPenalties),
                         SumAmounts(after.payments)))
        /\ after.remainingBalance.v >= 0
        /\ (before.payments = << >> /\ a.v <= before.remainingBalance.v)
             => after.remainingBalance = Sub(before.remainingBalance, a)

\* C2 as claimed: in every reachable state, overlapping requests included,
\* every stored borrower's totalPenalties is the sum of its penalties' amounts.
C2_TotalPenaltiesIsSum ==
  \A b \in Stored : b.totalPenalties = SumAmounts(b.penalties)

\* The request that ended in the last step was a create that answered 201
CreateServed == served.op = "POST" /\ served.res.status = 201

\* A body field read as the claim reads it: a whole number, 0 when it is
\* missing or not a number
Whole(x) == IF x.t = "num" THEN x.v \div Scale ELSE 0

\* C5: create stores (and returns) loanAmount + loanAmount * (periodRate / 100)
\* * term when loanAmount > 0 and term > 0, periodRate being interestRate / 12
\* for 'annually' and interestRate otherwise, and loanAmount when loanAmount <= 0
\* or term <= 0; a missing or non-numeric loanAmount, term or interestRate
\* counts as 0 and a missing interestType as 'monthly'.  (In units of 1/Scale
\* the interest is loanAmount * interestRate * term, times 12 when monthly.)
C5_InitialBalance ==
  CreateServed =>
    LET body == served.body
        loanAmount == Whole(body.loanAmount)
        interestRate == Whole(body.interestRate)
        term == Whole(body.term)
        perYear == IF body.interestType = "annually" THEN 1 ELSE 12
        expected ==
          IF loanAmount > 0 /\ term > 0
          THEN Fin(Scale * loanAmount + loanAmount * interestRate * term * perYear)
          ELSE Fin(Scale * loanAmount)
    IN  /\ served.res.remainingBalance = expected
        /\ Lookup(served.res.borrowers[1].id).remainingBalance = expected

\* C5 witness: the create of loanAmount 1000, interestRate 12, term 10,
\* monthly, has answered 201 and 2200 is stored
C5_Witness ==
  /\ CreateServed
  /\ served.body = Loan(N(1000), N(12), N(10), "monthly")
  /\ Lookup(served.res.borrowers[1].id).remainingBalance = N(2200)

\* C7: the selector is one-way and final: once useFileStorage is true it stays
\* true, and no step makes a database call (find, insertOne, findOne,
\* updateOne, deleteOne) from a state in which it is true, whether or not db
\* is set.
C7_SelectorOneWay ==
  [][ /\ useFileStorage => useFileStorage'
      /\ dbCall' # "none" => ~useFileStorage ]_vars

\* C7 witness: with db set and useFileStorage true, a create that holds the
\* database handle has been served by the file store
C7_Witness ==
  /\ db
  /\ useFileStorage
  /\ CreateServed
  /\ served.database
  /\ served.res.borrowers[1].id[1] = "gen"
  /\ collection # << >>

Ids(borrowers) == { borrowers[i].id : i \in DOMAIN borrowers }

\* A valid create / a list that began after the selector had become file-active
FallbackCreateServed ==
  served.pc = "done" /\ served.op = "POST" /\ served.fileActive /\ ~MissingRequired(served.body)
FallbackListServed == served.pc = "done" /\ served.op = "GET" /\ served.fileActive

C9_DbFailureFlipsSelector ==
  (served.pc = "done" /\ served.dbError) => useFileStorage

\* C10 as claimed: a create, payment, penalty or delete in which a database
\* call failed does not answer 200 or 201.
C10_DbWriteFailureIsReported ==
  (served.pc = "done" /\ served.dbError /\ served.op \in {"POST", "PUT", "DELETE"})
    => served.res.status \notin {200, 201}

\* What a caller can tell of an outcome
OutcomeKind(status) ==
  CASE status \in {200, 201} -> "success"
    [] status = 400 -> "validation error"
    [] status = 404 -> "not found"
    [] status = 0 -> "none"
    [] OTHER -> "failure"

\* The derived fields and the histories of a borrower as a caller reads them
Observed(b) ==
  LET j == JsonBorrower(b)
  IN  << j.remainingBalance, j.totalPenalties, j.payments, j.penalties >>

\* The n-th record created, in a sequence of borrowers: a sequence of length 1,
\* or << >> when it is not there
Nth(borrowers, n) ==
  IF \E i \in DOMAIN borrowers : borrowers[i].id[2] = n
  THEN <<Observed(borrowers[CHOOSE i \in DOMAIN borrowers : borrowers[i].id[2] = n])>>
  ELSE << >>

\* C6 as claimed: the same requests, run one at a time on the database store
\* and on the file store, get the same outcome kind each, the same
\* remainingBalance and totalPenalties in each response, and leave and list
\* the same remainingBalance, totalPenalties, payments and penalties for each
\* borrower (all as they read on the wire).
C6_BackendsEquivalent ==
  /\ OutcomeKind(served.res.status) = OutcomeKind(mirror.served.res.status)
  /\ JsonNumber(served.res.remainingBalance) = JsonNumber(mirror.served.res.remainingBalance)
  /\ JsonNumber(served.res.totalPenalties) = JsonNumber(mirror.served.res.totalPenalties)
  /\ \A n \in Created :
       /\ Nth(served.res.borrowers, n) = Nth(mirror.served.res.borrowers, n)
       /\ Nth(collection, n) = Nth(readData(mirror.w.dataFile), n)

\* The request that ends in this step (primed: after the step)
DeleteEnds == served'.pc = "done" /\ served'.op = "DELETE"
ListEnds == served'.pc = "done" /\ served'.op = "GET" /\ served'.res.status = 200
StoresUnchanged == collection' = collection /\ dataFile' = dataFile

\* C11 as claimed (the database answering its calls): a delete whose id
\* matches no stored record answers 404 and changes no record; once a delete
\* of x has succeeded no later list contains x, and a second delete of x
\* answers 404.
C11_DeleteUnknownIsNotFound ==
  [][ /\ (DeleteEnds /\ ~served'.dbError /\ served'.id # NoId /\ served'.id \notin StoredIds) =>
           (served'.res.status = 404 /\ StoresUnchanged)
      /\ (DeleteEnds /\ ~served'.dbError /\ served'.id \in deleted) => served'.res.status = 404
      /\ ListEnds => Ids(served'.res.borrowers) \cap deleted' = {} ]_vars

\* How a delete or an update of an id that matches no record may end: 404;
\* 400 when the database store is active and the id is no well-formed
\* ObjectId; 500 when its database call failed
NotFoundOrRejected(q, fileActive) ==
  \/ q.res.status = 404
  \/ q.res.status = 400 /\ q.database /\ ~fileActive /\ ~ObjectIdIsValid(q.id)
  \/ q.res.status = 500 /\ q.dbError

\* C11 amended: a delete whose id matches no stored record changes no record
\* and answers 404, or 400 when the database store is active and the id is
\* not a well-formed ObjectId, or 500 when the database call fails; a delete
\* without an id answers 400 and changes no record; once a delete of x has
\* succeeded no later list contains x, and a second delete of x ends in one of
\* those same three ways, never in success.
C11_DeleteUnknownIsNotFoundOrRejected ==
  [][ /\ (DeleteEnds /\ served'.id # NoId /\ served'.id \notin StoredIds) =>
           (NotFoundOrRejected(served', useFileStorage') /\ StoresUnchanged)
      /\ (DeleteEnds /\ served'.id = NoId) => (served'.res.status = 400 /\ StoresUnchanged)
      /\ (DeleteEnds /\ served'.id \in deleted) =>
           (NotFoundOrRejected(served', useFileStorage') /\ StoresUnchanged)
      /\ ListEnds => Ids(served'.res.borrowers) \cap deleted' = {} ]_vars

\* C11 witness: a second delete of a deleted record has answered 404 while
\* another record is stored
C11_Witness ==
  /\ served.pc = "done" /\ served.op = "DELETE"
  /\ served.id \in deleted
  /\ served.res.status = 404
  /\ Stored # {}

\* A payment request ends in this step, its database calls (if any) answered
PaymentEnds ==
  served'.pc = "done" /\ served'.op = "PUT" /\ served'.kind = "payment" /\ ~served'.dbError

\* C12 as claimed: a payment request without an id, or whose payment.amount is
\* missing, non-numeric, zero or negative, answers 400 whether or not its id
\* matches a stored record, and changes no record.
C12_InvalidPaymentIsValidationError ==
  [][ (PaymentEnds /\ (served'.id = NoId \/ LeqZero(NumberOrZero(served'.amount)))) =>
        (served'.res.status = 400 /\ StoresUnchanged) ]_vars

\* C13: a create in which name, contact or address is missing or empty answers
\* 400, adds no record to the database or to the file and changes no record.
C13_MissingFieldsRejected ==
  [][ ( /\ served'.pc = "done" /\ served'.op = "POST"
        /\ (served'.body.name = "" \/ served'.body.contact = "" \/ served'.body.address = "") )
      => (served'.res.status = 400 /\ StoresUnchanged /\ nextId' = nextId) ]_vars

\* C13 witness: a create without a contact has answered 400 while a record is
\* stored
C13_Witness ==
  /\ served.pc = "done" /\ served.op = "POST"
  /\ served.body.name # "" /\ served.body.contact = ""
  /\ served.res.status = 400
  /\ Stored # {}

\* The request that ends in this step ends on a writeData that returned false
WriteFailed ==
  /\ served'.pc = "done"
  /\ served'.res.message \in { "Failed to save borrower", "Failed to save payment",
                                "Failed to save penalty", "Failed to delete borrower" }

\* C14 as claimed: a create, payment, penalty or delete whose file write fails
\* answers with a failure, and the records the file holds are exactly those
\* it held before the request.
C14_FailedWriteKeepsRecords ==
  [][ WriteFailed =>
        /\ served'.res.status = 500
        /\ readData(dataFile') = readData(dataFile)
        /\ collection' = collection ]_vars

\* The request that ends in this step was served by the file store and got
\* as far as readData() (a request the file store answers 400 is turned away
\* before it reads)
FileReadEnds ==
  /\ served'.pc = "done"
  /\ useFileStorage \/ ~served'.database
  /\ served'.res.status # 400

\* C15 as claimed: a request that reads the data file while the file exists
\* and does not parse answers with a server error and leaves the file as it
\* is (it does not take the file for an empty record set and write over it).
C15_UnreadableFileIsServerError ==
  [][ (dataFile.exists /\ dataFile.corrupt /\ FileReadEnds) =>
        (served'.res.status = 500 /\ dataFile' = dataFile) ]_vars

\* list holds exactly the records of store, newest first; when stable, records
\* of equal createdAt come in the order store has them
ListsStore(list, store, stable) ==
  /\ Len(list) = Len(store)
  /\ \A i \in DOMAIN store : \E j \in DOMAIN list : list[j] = store[i]
  /\ IsDescending(list)
  /\ stable =>
       \A i, j \in DOMAIN list :
         (i < j /\ list[i].createdAt = list[j].createdAt) =>
           FindIndex(store, list[i].id) < FindIndex(store, list[j].id)

\* C16 as claimed: two lists that end one right after the other (no create,
\* payment, penalty or delete between them) return the identical records in
\* the identical order, in every selector state and also when the database
\* call of one of them failed; and a list changes no persisted state.
C16_ConsecutiveListsAgree ==
  [][ ListEnds =>
        /\ StoresUnchanged
        /\ (served.pc = "done" /\ served.op = "GET" /\ served.res.status = 200) =>
             served'.res.borrowers = served.res.borrowers ]_vars

\* C16 amended: a list changes no persisted state and returns exactly the
\* records of the store that served it, newest first: the collection's when
\* its find succeeded (records of equal createdAt in an order the server
\* chooses), and otherwise, also when its find failed, the file's (records of
\* equal createdAt in file order).  So two consecutive lists served by the
\* same store return the same records, and those served by the file store in
\* the same order.
C16_ListReturnsItsStore ==
  [][ ListEnds =>
        /\ StoresUnchanged
        /\ IF dbCall' = "find"
           THEN ListsStore(served'.res.borrowers, collection, FALSE)
           ELSE ListsStore(served'.res.borrowers, readData(dataFile), TRUE) ]_vars

\* C16 witness: a list whose find failed has been served from the file: it
\* returned records, and they are not those of the collection, which holds
\* records too
C16_Witness ==
  /\ served.pc = "done" /\ served.op = "GET" /\ served.dbError
  /\ Ids(served.res.borrowers) # Ids(collection)
  /\ collection # << >>
  /\ served.res.borrowers # << >>

IsPrefix(s, t) == Len(s) <= Len(t) /\ SubSeq(t, 1, Len(s)) = s

\* b before and c after a payment: one payment more, another remainingBalance,
\* nothing else
PaymentOnly(b, c) ==
  /\ IsPrefix(b.payments, c.payments)
  /\ Len(c.payments) = Len(b.payments) + 1
  /\ [c EXCEPT !.payments = b.payments, !.remainingBalance = b.remainingBalance] = b

\* b before and c after a penalty: one penalty more, another totalPenalties
\* and remainingBalance, nothing else
PenaltyOnly(b, c) ==
  /\ IsPrefix(b.penalties, c.penalties)
  /\ Len(c.penalties) = Len(b.penalties) + 1
  /\ [c EXCEPT !.penalties = b.penalties, !.totalPenalties = b.totalPenalties,
               !.remainingBalance = b.remainingBalance] = b

\* C17: in every step, a borrower stored before and after it is unchanged,
\* unless the step ends a successful payment (penalty) request addressed to
\* it, which appends one record to its payments (penalties) and changes
\* besides only its remainingBalance (its totalPenalties and
\* remainingBalance); so payments and penalties only ever grow at the end.
C17_AppendOnly ==
  [][ \A b \in Stored : \A c \in Stored' :
        c.id = b.id =>
          \/ c = b
          \/ /\ served'.pc = "done" /\ served'.op = "PUT" /\ served'.res.status = 200
             /\ served'.id = b.id
             /\ IF served'.kind = "payment" THEN PaymentOnly(b, c) ELSE PenaltyOnly(b, c) ]_vars

\* C17 witness: a payment has been added to a borrower that had a payment and
\* now has two, while another borrower is stored
C17_Witness ==
  /\ PaymentServed
  /\ \E b \in Stored : b.id = served.id /\ Len(b.payments) = 2
  /\ \E b \in Stored : b.id # served.id

\* A payment, penalty or delete with an id ends in this step, served by the
\* database store
DbMutationEnds ==
  /\ served'.pc = "done"
  /\ served'.database /\ ~useFileStorage'
  /\ served'.id # NoId
  /\ \/ served'.op = "DELETE"
     \/ served'.op = "PUT" /\ served'.kind \in {"payment", "penalty"}

\* C18: while the database store is active, a payment, penalty or delete whose
\* id is not a well-formed ObjectId answers 400 'Invalid borrower ID format.'
\* (not 404), calls the database neither to read nor to write and changes no
\* record; one whose id is well-formed and matches no record answers 404,
\* provided its database call is answered.
C18_MalformedIdIsClientError ==
  [][ DbMutationEnds =>
        /\ served'.id[1] \notin {"oid", "hex"} =>
             /\ served'.res.status = 400
             /\ served'.res.message = "Invalid borrower ID format."
             /\ dbCall' = "none"
             /\ StoresUnchanged
        /\ (served'.id[1] \in {"oid", "hex"} /\ served'.id \notin StoredIds /\ ~served'.dbError) =>
             (served'.res.status = 404 /\ StoresUnchanged) ]_vars

\* C18 witness: with the database store active and holding a record, a payment
\* with a malformed id has answered 400
C18_Witness ==
  /\ served.pc = "done" /\ served.op = "PUT" /\ served.kind = "payment"
  /\ served.database /\ ~useFileStorage
  /\ served.id = MalformedId
  /\ served.res.status = 400
  /\ collection # << >>

\* C19 as claimed: when no payment or penalty request is under way, a
\* database borrower that has had payments and no penalties has
\* remainingBalance = max(loanAmount + totalInterest + totalPenalties - the
\* sum of all its stored payments, 0), however its payment requests
\* overlapped.
C19_OverlappingPaymentsBothCount ==
  InFlight("PUT") = 0 =>
    \A i \in DOMAIN collection :
      LET b == collection[i]
      IN  (b.payments # << >> /\ b.penalties = << >>) =>
            b.remainingBalance =
              MaxZero(Sub(Add(Add(b.loanAmount, TotalInterest(b)), b.totalPenalties),
                          SumAmounts(b.payments)))

\* C20 as claimed: a payment or penalty request that answers with success has
\* persisted its record and the updated cached fields: the borrower it
\* addressed is stored, with the balance the response reports and a history
\* that is not empty.
C20_SuccessMeansPersisted ==
  (PaymentServed \/ PenaltyServed) =>
    \E b \in Stored :
      /\ b.id = served.id
      /\ b.remainingBalance = JsonNumber(served.res.remainingBalance)
      /\ IF served.kind = "payment" THEN b.payments # << >> ELSE b.penalties # << >>

\* A payment or penalty request ends in this step that had read its borrower
\* from the database and was not turned away for its amount
ReadFromDbEnds ==
  /\ served'.pc = "done" /\ served'.op = "PUT"
  /\ served'.borrower # << >>
  /\ served'.borrower[1].id[1] = "oid"
  /\ ~(served'.kind = "payment" /\ LeqZero(NumberOrZero(served'.amount)))

\* C21 as claimed: a payment or penalty request that read its borrower from
\* the database makes its write on the database too (updateOne), and leaves
\* the file alone, whatever happens to useFileStorage between its read and
\* its write.
C21_OneBackendPerRequest ==
  [][ ReadFromDbEnds => (dbCall' = "updateOne" /\ dataFile' = dataFile) ]_vars

\* The request that ends in this step, as it arrived
ArrivalOfServed ==
  [served' EXCEPT !.pc = "entry", !.database = FALSE, !.borrower = << >>,
                  !.createdAt = 0, !.res = NoRes, !.dbError = FALSE]

\* This step wrote the file, and its file is the one that the whole request
\* that ends in it, run alone from its arrival on the file as this step
\* found it, leaves (the clock at some reading)
FileStepIsSerial ==
  /\ served'.pc = "done"
  /\ \E t \in 0..MaxTime :
       dataFile' = Serve([World EXCEPT !.now = t], ArrivalOfServed, << >>).w.dataFile

\* Every record of the list counts every entry of its histories:
\* totalPenalties is the sum of its penalties and, with payments only,
\* remainingBalance is the initial debt less the sum of its payments
NoUpdateLost(borrowers) ==
  \A i \in DOMAIN borrowers :
    LET b == borrowers[i]
    IN  /\ b.totalPenalties = SumAmounts(b.penalties)
        /\ (b.payments # << >> /\ b.penalties = << >>) =>
              b.remainingBalance =
                MaxZero(Sub(Add(b.loanAmount, TotalInterest(b)), SumAmounts(b.payments)))

\* C22: with the file store active, requests that overlap do not interleave
\* inside a read-modify-write of the file.  Every step that changes the file
\* (its write succeeding) is the last step of one request and leaves the file
\* that this request, served alone on the file as the step found it, leaves:
\* the file is at all times that of the requests served one after the other
\* in the order of their writes.  And no update is lost: every stored record
\* counts all the payments and penalties of its histories.
C22_FileRequestsAreSerial ==
  [][ /\ (useFileStorage /\ dataFile' # dataFile /\ ~fileFault') => FileStepIsSerial
      /\ NoUpdateLost(readData(dataFile'))
    ]_vars

\* A payment or penalty request has just written the file while another
\* request for the same borrower, arrived before that write, has still to
\* read the file
C22_Witness ==
  /\ useFileStorage /\ ~fileFault
  /\ served.pc = "done" /\ served.op = "PUT" /\ served.res.status = 200
  /\ served.id[1] = "gen"
  /\ \E r \in Requests :
       /\ req[r].op = "PUT" /\ req[r].pc = "connected"
       /\ req[r].id = served.id

====
